---- MODULE Spec2Model ----
(***************************************************************************)
(* The constraint-propagation Sudoku solver of sudoku.py as a state        *)
(* machine.  One run of solve_sudoku is one behaviour: the state holds the *)
(* board, the working array (the candidate space), the locals of           *)
(* solve_sudoku and of reduce_working_space, and the position (pc) in      *)
(* their loops.  Every call of set_board_value and every call of a         *)
(* reduction method is one step; method 3 takes one step per iteration of  *)
(* its scan loop.                                                          *)
(*                                                                         *)
(* The working array is 9x9x10 booleans in the source; slot 0 of the last  *)
(* axis is never set (init_working only sets slots drawn from 1..9, and    *)
(* every later write of True copies slots that are already set), so the   *)
(* model keeps, per cell, the set of digits 1..9 whose flag is True.       *)
(***************************************************************************)
EXTENDS Integers, Sequences, FiniteSets, TLC

Idx == 0 .. 8
Blk == 0 .. 2
Digits == 1 .. 9
Cells == {<<i, j>> : i \in Idx, j \in Idx}
LineDigits == {<<a, n>> : a \in Idx, n \in Digits}          \* (row or column, digit)
BlockDigits == {<<x, y, n>> : x \in Blk, y \in Blk, n \in Digits}
Flags == {<<c, n>> : c \in Cells, n \in Digits}

\* f itself, as an explicit table of its values: every array the code builds is
\* built once, not re-derived at each read.
Array(f) == f @@ <<>>

(***************************************************************************)
(* Inputs.  Each grid is written as nine numbers, one per row, whose       *)
(* decimal digits are the nine cells (0 is a blank cell).  sol is a valid  *)
(* completion of the grid when one is known, <<>> when the grid is         *)
(* contradictory.  Every grid is also run with its first k givens blanked, *)
(* k up to MaxErased.                                                      *)
(***************************************************************************)
MaxErased == 1

Puzzles == <<
    \* solved by the simple passes alone
    [grid |-> <<341098000, 860005130, 527034980, 750013608, 986527410, 130869527, 698750340, 270040860, 413986702>>,
     sol  |-> <<341698275, 869275134, 527134986, 752413698, 986527413, 134869527, 698752341, 275341869, 413986752>>],
    \* needs methods 1-4 and ends with candidates left
    [grid |-> <<809060050, 32050409, 17480002, 6000048, 400000200, 20000900, 60500000, 80600000, 893621>>,
     sol  |-> <<849362157, 632157489, 517489362, 396215748, 478936215, 125748936, 261574893, 983621574, 754893621>>],
    \* solved after reductions
    [grid |-> <<10390, 500093004, 397008010, 154030, 7451, 32786, 8040123, 103079040, 0>>,
     sol  |-> <<864215397, 512793864, 397468512, 786154239, 239687451, 451932786, 978546123, 123879645, 645321978>>],
    \* sparse: some cells keep all nine candidates
    [grid |-> <<609170800, 308090107, 0, 21000400, 201, 900000008, 0, 80064000, 496000000>>,
     sol  |-> <<649172853, 358496127, 217835946, 721583469, 835649271, 964217538, 172358694, 583964712, 496721385>>],
    \* the last cell is filled in the pass just before the reducer is called
    [grid |-> <<8000021, 701000, 1300006, 803059017, 605000348, 107000965, 10834050, 500172003, 6100>>,
     sol  |-> <<438965721, 956721834, 271348596, 843659217, 695217348, 127483965, 712834659, 569172483, 384596172>>],
    \* the empty grid
    [grid |-> <<0, 0, 0, 0, 0, 0, 0, 0, 0>>,
     sol  |-> <<341698275, 869275134, 527134986, 752413698, 986527413, 134869527, 698752341, 275341869, 413986752>>],
    \* contradictory: two 2s in row 2, three blanks
    [grid |-> <<304965027, 965712438, 722843596, 438596712, 271384659, 596271843, 659127384, 127438965, 843659071>>,
     sol  |-> <<>>],
    \* contradictory: a blank cell with no candidate
    [grid |-> <<19247436, 257463918, 463981752, 572634891, 634819275, 198572643, 346198507, 725306189, 981725364>>,
     sol  |-> <<>>],
    \* contradictory: the reducer empties cells that the board does not rule out
    [grid |-> <<830000, 400070000, 700510000, 690251000, 384960025, 2003079, 521040060, 76125480, 43000513>>,
     sol  |-> <<>>]
  >>

RowDigit(r, j) == (r \div (10 ^ (8 - j))) % 10
GridOf(rows) == Array([c \in Cells |-> RowDigit(rows[c[1] + 1], c[2])])
NoSol == Array([c \in Cells |-> 0])
SolOf(rows) == IF rows = <<>> THEN NoSol ELSE GridOf(rows)

\* Position of a tuple of indices in row-major order (every index is below 10).
Key(t) == IF Len(t) = 2 THEN 10 * t[1] + t[2] ELSE 100 * t[1] + 10 * t[2] + t[3]
First(S) == CHOOSE t \in S : \A u \in S : Key(t) <= Key(u)
Min(S) == CHOOSE x \in S : \A y \in S : x <= y

Erase(b, k) ==
    Array([c \in Cells |->
        IF b[c] # 0 /\ Cardinality({d \in Cells : b[d] # 0 /\ Key(d) < Key(c)}) < k
        THEN 0 ELSE b[c]])

Inputs ==
    {[board |-> Erase(GridOf(Puzzles[p].grid), k), sol |-> SolOf(Puzzles[p].sol)] :
        p \in 1 .. Len(Puzzles), k \in 0 .. MaxErased}

(***************************************************************************)
(* Utility functions of sudoku.py                                          *)
(***************************************************************************)
BlockCells(x, y) == {<<3 * x + a, 3 * y + b>> : a \in Blk, b \in Blk}
SameBlock(c, d) == c[1] \div 3 = d[1] \div 3 /\ c[2] \div 3 = d[2] \div 3
RowVals(b, i) == {b[<<i, j>>] : j \in Idx}
ColVals(b, j) == {b[<<i, j>>] : i \in Idx}
BlockVals(b, x, y) == {b[c] : c \in BlockCells(x, y)}

\* check_board: every row, column and block is exactly 1..9, and no given changed.
check_board(b, orig_board) ==
    /\ \A c \in Cells : orig_board[c] # 0 => b[c] = orig_board[c]
    /\ \A i \in Idx : RowVals(b, i) = Digits
    /\ \A j \in Idx : ColVals(b, j) = Digits
    /\ \A x \in Blk, y \in Blk : BlockVals(b, x, y) = Digits

\* init_working looping over every cell, not only the blank ones of line 73.
init_working_AllCells(b) ==
    Array([c \in Cells |->
        Digits \ (RowVals(b, c[1]) \cup ColVals(b, c[2])
                    \cup BlockVals(b, c[1] \div 3, c[2] \div 3))])

\* init_working as its docstring has it: a given cell has its one entry set.
init_working_AsDocumented(b) ==
    Array([c \in Cells |->
        IF b[c] = 0
        THEN Digits \ (RowVals(b, c[1]) \cup ColVals(b, c[2])
                        \cup BlockVals(b, c[1] \div 3, c[2] \div 3))
        ELSE {b[c]}])

init_working(b) ==
    Array([c \in Cells |->
        IF b[c] = 0
        THEN Digits \ (RowVals(b, c[1]) \cup ColVals(b, c[2])
                        \cup BlockVals(b, c[1] \div 3, c[2] \div 3))
        ELSE {}])

\* working.sum()
WSum(w) == Cardinality({t \in Flags : t[2] \in w[t[1]]})

\* ClearForValue without line 87 (the cell keeps its other candidates).
ClearForValue_KeepCell(w, i, j, n) ==
    Array([c \in Cells |->
        IF c[1] = i \/ c[2] = j \/ SameBlock(c, <<i, j>>) THEN w[c] \ {n}
        ELSE w[c]])

\* The writes of set_board_value to the working array.
ClearForValue(w, i, j, n) ==
    Array([c \in Cells |->
        IF c = <<i, j>> THEN {}
        ELSE IF c[1] = i \/ c[2] = j \/ SameBlock(c, <<i, j>>) THEN w[c] \ {n}
        ELSE w[c]])

\* set_board_value writing board[j,i] instead of board[i,j].
set_board_value_Transposed(b, w, i, j, n) ==
    [board |-> [b EXCEPT ![<<j, i>>] = n], working |-> ClearForValue(w, i, j, n)]

set_board_value(b, w, i, j, n) ==
    [board |-> [b EXCEPT ![<<i, j>>] = n], working |-> ClearForValue(w, i, j, n)]

(***************************************************************************)
(* find_simple_values and find_simple_values_in_block                      *)
(***************************************************************************)
\* (working.sum(axis) == 1).nonzero(), as the set of index pairs
Found(w, ax) ==
    IF ax = 0 THEN {e \in LineDigits : Cardinality({i \in Idx : e[2] \in w[<<i, e[1]>>]}) = 1}
    ELSE IF ax = 1 THEN {e \in LineDigits : Cardinality({j \in Idx : e[2] \in w[<<e[1], j>>]}) = 1}
    ELSE {e \in Cells : Cardinality(w[e]) = 1}

FoundInBlock(w) ==
    {e \in BlockDigits : Cardinality({c \in BlockCells(e[1], e[2]) : e[3] \in w[c]}) = 1}

\* The (i, j, n) that flatnonzero(...) offers for entry e: element [0] is the
\* first of them, and there is none when the set is empty.
Located(w, ax, e) ==
    IF ax = 0 THEN {<<i, e[1], e[2]>> : i \in {i \in Idx : e[2] \in w[<<i, e[1]>>]}}
    ELSE IF ax = 1 THEN {<<e[1], j, e[2]>> : j \in {j \in Idx : e[2] \in w[<<e[1], j>>]}}
    ELSE {<<e[1], e[2], n>> : n \in w[e]}

\* working_blocks[x,y,:,:,n].nonzero() for entry e = (x, y, n), as board cells
BlockLocated(w, e) == {c \in BlockCells(e[1], e[2]) : e[3] \in w[c]}

RECURSIVE SetAll(_, _, _, _)
SetAll(b, w, cells, n) ==
    IF cells = {} THEN [board |-> b, working |-> w]
    ELSE LET c == First(cells)
             r == set_board_value(b, w, c[1], c[2], n)
         IN  SetAll(r.board, r.working, cells \ {c}, n)

(***************************************************************************)
(* The reduction methods                                                   *)
(***************************************************************************)
\* working_block_rows[x,j,n]: some row of band x has n in column j
InBand(w, x, j, n) == \E a \in Blk : n \in w[<<3 * x + a, j>>]
\* working_block_cols[i,y,n]: some column of block-column y has n in row i
InStack(w, i, y, n) == \E b \in Blk : n \in w[<<i, 3 * y + b>>]

\* Method1Cols clearing the found column itself instead of the other two.
Method1Cols_OwnColumn(w) ==
    LET fnd == {e \in LineDigits :
                   Cardinality({x \in Blk : InBand(w, x, e[1], e[2])}) = 1}
    IN  Array([c \in Cells |->
            w[c] \ {n \in Digits :
                      \E j \in Idx : /\ <<j, n>> \in fnd
                                     /\ InBand(w, c[1] \div 3, j, n)
                                     /\ j = c[2]}])

\* Method 1, first half: a column whose n all lie in one band clears n from
\* the other two columns of that block.  found and the band are read from
\* working_block_rows, a copy made before the loop, so the writes of the
\* loop do not interact and are taken together.
Method1Cols(w) ==
    LET fnd == {e \in LineDigits :
                   Cardinality({x \in Blk : InBand(w, x, e[1], e[2])}) = 1}
    IN  Array([c \in Cells |->
            w[c] \ {n \in Digits :
                      \E j \in Idx : /\ <<j, n>> \in fnd
                                     /\ InBand(w, c[1] \div 3, j, n)
                                     /\ j \div 3 = c[2] \div 3
                                     /\ j # c[2]}])

\* Method 1, second half: the same along rows, on the array the first half left.
Method1Rows(w) ==
    LET fnd == {e \in LineDigits :
                   Cardinality({y \in Blk : InStack(w, e[1], y, e[2])}) = 1}
    IN  Array([c \in Cells |->
            w[c] \ {n \in Digits :
                      \E i \in Idx : /\ <<i, n>> \in fnd
                                     /\ InStack(w, i, c[2] \div 3, n)
                                     /\ i \div 3 = c[1] \div 3
                                     /\ i # c[1]}])

wr_method_1(w) == Method1Rows(Method1Cols(w))

\* Method 2 as "clear n from the rest of the block": the cells of the block
\* outside the row (column) of the first cell still set.
Method2Entry_InsideBlock(w, byRow, e) ==
    LET f == BlockLocated(w, e)
    IN  IF f = {} THEN [working |-> w, err |-> TRUE]
        ELSE LET i == First(f)[1]
                 j == First(f)[2]
             IN  [working |->
                     Array([c \in Cells |->
                         IF c \in BlockCells(e[1], e[2]) /\ (IF byRow THEN c[1] # i ELSE c[2] # j)
                         THEN w[c] \ {e[3]} ELSE w[c]]),
                  err |-> FALSE]

\* Method 2.  found is computed before each loop and f is read from the live
\* view; f[0] raises IndexError when the block has lost every n.  byRow is the
\* first loop (f = nonzero()[0], the row of the first cell still set), else
\* the second (f = nonzero()[1], its column).
Method2Entry(w, byRow, e) ==
    LET f == BlockLocated(w, e)
    IN  IF f = {} THEN [working |-> w, err |-> TRUE]
        ELSE LET i == First(f)[1]
                 j == First(f)[2]
             IN  [working |->
                     Array([c \in Cells |->
                         IF byRow
                         THEN IF c[1] = i /\ c[2] \div 3 # e[2] THEN w[c] \ {e[3]} ELSE w[c]
                         ELSE IF c[2] = j /\ c[1] \div 3 # e[1] THEN w[c] \ {e[3]} ELSE w[c]]),
                  err |-> FALSE]

\* The loop over the entries of fnd whose Key lies in lo..hi, in row-major
\* order (the range is halved only to keep the evaluation shallow).
RECURSIVE Method2Loop(_, _, _, _, _)
Method2Loop(w, byRow, fnd, lo, hi) ==
    LET part == {e \in fnd : lo <= Key(e) /\ Key(e) <= hi}
        mid == (lo + hi) \div 2
    IN  IF part = {} THEN [working |-> w, err |-> FALSE]
        ELSE IF lo = hi THEN Method2Entry(w, byRow, First(part))
        ELSE LET r == Method2Loop(w, byRow, part, lo, mid)
             IN  IF r.err THEN r ELSE Method2Loop(r.working, byRow, part, mid + 1, hi)

\* ((working_blocks.sum(3) != 0).sum(2) == 1).nonzero()
FoundOneRow(w) ==
    {e \in BlockDigits :
        Cardinality({a \in Blk : \E b \in Blk : e[3] \in w[<<3 * e[1] + a, 3 * e[2] + b>>]}) = 1}
\* ((working_blocks.sum(2) != 0).sum(2) == 1).nonzero()
FoundOneCol(w) ==
    {e \in BlockDigits :
        Cardinality({b \in Blk : \E a \in Blk : e[3] \in w[<<3 * e[1] + a, 3 * e[2] + b>>]}) = 1}

wr_method_2(w) ==
    LET r1 == Method2Loop(w, TRUE, FoundOneRow(w), 0, 299)
    IN  IF r1.err THEN r1
        ELSE Method2Loop(r1.working, FALSE, FoundOneCol(r1.working), 0, 299)

\* PairStep whose add-back of line 221 writes the whole row, working[i,:,(n,m)].
PairStep_Row(w, c, c2, n, m) ==
    LET same_block == SameBlock(c, c2)
        w1 == IF same_block
              THEN Array([d \in Cells |-> IF SameBlock(d, c) THEN w[d] \ {n, m} ELSE w[d]])
              ELSE w
        w2 == IF c[1] = c2[1]
              THEN Array([d \in Cells |-> IF d[1] = c[1] THEN w1[d] \ {n, m} ELSE w1[d]])
              ELSE IF c[2] = c2[2]
              THEN Array([d \in Cells |-> IF d[2] = c[2] THEN w1[d] \ {n, m} ELSE w1[d]])
              ELSE w1
    IN  IF c[1] # c2[1] /\ c[2] # c2[2] /\ ~same_block
        THEN w
        ELSE Array([d \in Cells |-> IF d[1] = c[1] \/ d = c2 THEN w2[d] \cup {n, m} ELSE w2[d]])

\* Method 3: the body of "for (i2,j2) in p" for the cell c = (i, j) of the scan
\* and the recorded cell c2 = (i2, j2), both keyed by the pair (n, m).
PairStep(w, c, c2, n, m) ==
    LET same_block == SameBlock(c, c2)
        w1 == IF same_block
              THEN Array([d \in Cells |-> IF SameBlock(d, c) THEN w[d] \ {n, m} ELSE w[d]])
              ELSE w
        w2 == IF c[1] = c2[1]
              THEN Array([d \in Cells |-> IF d[1] = c[1] THEN w1[d] \ {n, m} ELSE w1[d]])
              ELSE IF c[2] = c2[2]
              THEN Array([d \in Cells |-> IF d[2] = c[2] THEN w1[d] \ {n, m} ELSE w1[d]])
              ELSE w1
    IN  IF c[1] # c2[1] /\ c[2] # c2[2] /\ ~same_block
        THEN w                       \* just a coincidence
        ELSE [w2 EXCEPT ![c] = @ \cup {n, m}, ![c2] = @ \cup {n, m}]

\* p lists cells in the order the scan met them, which is row-major order.
RECURSIVE PairLoop(_, _, _, _, _)
PairLoop(w, c, p, n, m) ==
    IF p = {} THEN w
    ELSE LET c2 == First(p)
         IN  PairLoop(PairStep(w, c, c2, n, m), c, p \ {c2}, n, m)

PairKeys == {k \in LineDigits : 0 < k[1] /\ k[1] < k[2]}
PairOf(vals) == <<Min(vals), Min(vals \ {Min(vals)})>>

\* p = pairs.setdefault((n,m), []): the cells recorded under the pair k
Recorded(prs, k) == prs[k]

\* Method 4
RECURSIVE Combs(_, _)
\* itertools.combinations(cells, n): the n-subsets of S in lexicographic order
Combs(S, n) ==
    IF n = 0 THEN <<{}>>
    ELSE IF Cardinality(S) < n THEN <<>>
    ELSE LET m == Min(S)
             with == Combs(S \ {m}, n - 1)
         IN  [k \in 1 .. Len(with) |-> {m} \cup with[k]] \o Combs(S \ {m}, n)

\* Cell number q of row idx (byRow) or of column idx.
LineCell(byRow, idx, q) == IF byRow THEN <<idx, q>> ELSE <<q, idx>>
OnLine(byRow, idx, c) == IF byRow THEN c[1] = idx ELSE c[2] = idx
PosOnLine(byRow, c) == IF byRow THEN c[2] ELSE c[1]

\* One combination cmb of positions on row or column idx.  vals is read from
\* the live array.  When the combination is the whole line (n = 9) the tuple
\* of the other positions is empty, meshgrid turns it into an empty float
\* array, and indexing with it raises IndexError.
Method4Comb(w, byRow, idx, cmb, n) ==
    LET vals == UNION {w[LineCell(byRow, idx, q)] : q \in cmb}
    IN  IF Cardinality(vals) # n THEN [working |-> w, err |-> FALSE]
        ELSE IF Idx \ cmb = {} THEN [working |-> w, err |-> TRUE]
        ELSE [working |->
                 Array([c \in Cells |->
                     IF OnLine(byRow, idx, c) /\ PosOnLine(byRow, c) \notin cmb
                     THEN w[c] \ vals ELSE w[c]]),
              err |-> FALSE]

\* The loop over combinations number lo..hi, in order (the range is halved
\* only to keep the evaluation shallow).
RECURSIVE Method4Combs(_, _, _, _, _, _, _)
Method4Combs(w, byRow, idx, combs, lo, hi, n) ==
    IF lo > hi THEN [working |-> w, err |-> FALSE]
    ELSE IF lo = hi THEN Method4Comb(w, byRow, idx, combs[lo], n)
    ELSE LET mid == (lo + hi) \div 2
             r == Method4Combs(w, byRow, idx, combs, lo, mid, n)
         IN  IF r.err THEN r
             ELSE Method4Combs(r.working, byRow, idx, combs, mid + 1, hi, n)

\* The loop over the nine rows (byRow) or the nine columns; data is the array
\* computed before both loops.
RECURSIVE Method4Lines(_, _, _, _, _)
Method4Lines(w, byRow, idx, data, n) ==
    IF idx > 8 THEN [working |-> w, err |-> FALSE]
    ELSE LET cells == {q \in Idx : LineCell(byRow, idx, q) \in data}
             r == IF Cardinality(cells) < n
                  THEN [working |-> w, err |-> FALSE]
                  ELSE LET combs == Combs(cells, n)
                       IN  Method4Combs(w, byRow, idx, combs, 1, Len(combs), n)
         IN  IF r.err THEN r ELSE Method4Lines(r.working, byRow, idx + 1, data, n)

wr_method_4(w, n) ==
    LET data == {c \in Cells : Cardinality(w[c]) > 0 /\ Cardinality(w[c]) <= n}
        r == Method4Lines(w, TRUE, 0, data, n)
    IN  IF r.err THEN r ELSE Method4Lines(r.working, FALSE, 0, data, n)

\* working.sum(2).max()
MaxCount(w) == CHOOSE k \in 0 .. 9 :
                   /\ \E c \in Cells : Cardinality(w[c]) = k
                   /\ \A c \in Cells : Cardinality(w[c]) <= k

\* range(3, working.sum(2).max()) : the last N left out
LastN_Short(w) == MaxCount(w) - 1

\* The last N of range(3, working.sum(2).max()+1)
LastN(w) == MaxCount(w)

\* Line 141 without the test of looped: method 4 at every fixed point.
TryHarder_Always(l) == TRUE

\* if not looped: nothing was reduced so far in this call
TryHarder(l) == ~l

\* Line 205 with the comparison turned around.
Stale_Inverted(vals) == Cardinality(vals) = 2

\* if len(vals) != 2: the cell no longer has the two values the scan saw
Stale(vals) == Cardinality(vals) # 2

VARIABLES
    board, working,          \* the arguments every function shares
    pc,                      \* position in solve_sudoku / reduce_working_space
    axis, nothing_found,     \* locals of solve_sudoku
    found,                   \* entries of the current scan still to be handled
    pairs,                   \* method 3's dictionary: pair -> cells recorded
    looped, rem, old_rem,    \* locals of reduce_working_space
    N, maxN,                 \* method 4's N and the end of its range
    orig, sol,               \* the input grid and its known completion
    run, out1,               \* 1 or 2: which call this is; the board the first returned
    last, pre,               \* the call the last step completed, working before it
    redPre, m3pre,           \* working when reduce_working_space / method 3 was called
    scan,                    \* working when the running invocation of method 3 began
    redRet,                  \* what the last reduce_working_space call returned
    m4tried,                 \* the N method 4 was run with in this reducer call
    depth,                   \* nesting of method 3's restarts in this call
    rounds, in_a_row         \* iterations of the while loop; failed passes in a row

solveVars == <<axis, nothing_found, rounds, in_a_row>>
reduceVars == <<looped, rem, old_rem, N, maxN, redPre, m4tried>>
m3Vars == <<pairs, m3pre, depth, scan>>
inputVars == <<orig, sol, run, out1>>
vars == <<board, working, pc, found, last, pre, redRet,
          solveVars, reduceVars, m3Vars, inputVars>>

NoPairs == [k \in PairKeys |-> {}]

Init ==
    \E inp \in Inputs :
        /\ board = inp.board
        /\ orig = inp.board
        /\ sol = inp.sol
        /\ run = 1
        /\ out1 = inp.board
        /\ working = init_working(inp.board)
        /\ pc = "while"
        /\ axis = 0
        /\ nothing_found = 0
        /\ found = {}
        /\ pairs = NoPairs
        /\ looped = FALSE
        /\ rem = 0
        /\ old_rem = 0
        /\ N = 0
        /\ maxN = 0
        /\ last = "init_working"
        /\ pre = init_working(inp.board)
        /\ redPre = init_working(inp.board)
        /\ m3pre = init_working(inp.board)
        /\ scan = init_working(inp.board)
        /\ redRet = "none"
        /\ m4tried = {}
        /\ depth = 0
        /\ rounds = 0
        /\ in_a_row = 0

\* while working.sum() != 0: ... return board
While ==
    /\ pc = "while"
    /\ IF WSum(working) # 0
       THEN pc' = "find" /\ axis' = 0 /\ rounds' = rounds + 1
       ELSE pc' = "return25" /\ UNCHANGED <<axis, rounds>>
    /\ last' = "ctl"
    /\ UNCHANGED <<board, working, found, pre, redRet, nothing_found, in_a_row,
                   reduceVars, m3Vars, inputVars>>

\* The for loop moves to the next axis, or ends and the while test follows.
NextAxisPc == IF axis < 3 THEN "find" ELSE "while"
NextAxis == IF axis < 3 THEN axis + 1 ELSE axis

\* One scan of find_simple_values(axis) or find_simple_values_in_block.
Find ==
    /\ pc = "find"
    /\ LET f == IF axis = 3 THEN FoundInBlock(working) ELSE Found(working, axis)
       IN  IF f = {}
           THEN /\ found' = {}
                /\ nothing_found' = nothing_found + 1
                /\ in_a_row' = in_a_row + 1
                /\ IF nothing_found + 1 = 4
                   THEN pc' = "reduce" /\ axis' = axis
                   ELSE pc' = NextAxisPc /\ axis' = NextAxis
           ELSE /\ found' = f
                /\ pc' = "assign"
                /\ in_a_row' = 0
                /\ UNCHANGED <<axis, nothing_found>>
    /\ last' = "ctl"
    /\ UNCHANGED <<board, working, pre, redRet, rounds, reduceVars, m3Vars, inputVars>>

\* One iteration of the loop over the found entries.
Assign ==
    /\ pc = "assign"
    /\ LET e == First(found)
           rest == found \ {e}
           loc == Located(working, axis, e)
           r == IF axis = 3
                THEN SetAll(board, working, BlockLocated(working, e), e[3])
                ELSE LET t == First(loc)
                     IN  set_board_value(board, working, t[1], t[2], t[3])
       IN  IF axis # 3 /\ loc = {}
           THEN /\ pc' = "IndexError"
                /\ last' = "ctl"
                /\ UNCHANGED <<board, working, axis, found, pre>>
           ELSE /\ board' = r.board
                /\ working' = r.working
                /\ found' = rest
                /\ last' = IF r.board # board THEN "set_board_value" ELSE "ctl"
                /\ pre' = working
                /\ IF rest = {}
                   THEN pc' = NextAxisPc /\ axis' = NextAxis
                   ELSE pc' = "assign" /\ axis' = axis
    /\ UNCHANGED <<redRet, nothing_found, rounds, in_a_row, reduceVars, m3Vars, inputVars>>

(***************************************************************************)
(* reduce_working_space                                                    *)
(***************************************************************************)
\* "return looped" and what solve_sudoku does with it (lines 22-24).
Return(r) ==
    /\ redRet' = r
    /\ last' = "reduce_working_space"
    /\ pre' = redPre'
    /\ IF r THEN pc' = "while" /\ nothing_found' = 0
            ELSE pc' = "return22" /\ nothing_found' = nothing_found

\* The call, and the first test of "while rem".
ReduceEnter ==
    /\ pc = "reduce"
    /\ looped' = FALSE
    /\ rem' = WSum(working)
    /\ redPre' = working
    /\ m4tried' = {}
    /\ IF WSum(working) # 0
       THEN /\ old_rem' = WSum(working)
            /\ pc' = "m1"
            /\ last' = "ctl"
            /\ UNCHANGED <<pre, redRet, nothing_found>>
       ELSE /\ old_rem' = old_rem
            /\ Return(FALSE)
    /\ UNCHANGED <<board, working, found, axis, rounds, in_a_row, N, maxN, m3Vars, inputVars>>

Method1 ==
    /\ pc = "m1"
    /\ working' = wr_method_1(working)
    /\ pc' = "m2"
    /\ last' = "wr_method_1"
    /\ pre' = working
    /\ UNCHANGED <<board, found, redRet, solveVars, reduceVars, m3Vars, inputVars>>

Method2 ==
    /\ pc = "m2"
    /\ LET r == wr_method_2(working)
       IN  /\ working' = r.working
           /\ IF r.err THEN pc' = "IndexError" /\ last' = "ctl"
                       ELSE pc' = "m3" /\ last' = "wr_method_2"
    /\ pre' = working
    /\ depth' = 0
    /\ UNCHANGED <<board, found, redRet, solveVars, reduceVars, pairs, m3pre, scan, inputVars>>

\* Method 3 returns: the loop over found ended.
M3Done(entry) == pc' = "check" /\ last' = "wr_method_3" /\ pre' = entry

\* The head of method 3, at the call from reduce_working_space (depth 0) and at
\* each restart: the scan for cells with two candidates, and an empty dictionary.
Method3Scan ==
    /\ pc = "m3"
    /\ found' = {c \in Cells : Cardinality(working[c]) = 2}
    /\ pairs' = NoPairs
    /\ m3pre' = IF depth = 0 THEN working ELSE m3pre
    /\ scan' = working
    /\ IF {c \in Cells : Cardinality(working[c]) = 2} = {}
       THEN M3Done(IF depth = 0 THEN working ELSE m3pre)
       ELSE pc' = "m3loop" /\ last' = "ctl" /\ pre' = pre
    /\ UNCHANGED <<board, working, redRet, depth, solveVars, reduceVars, inputVars>>

\* One iteration of "for i,j in zip(*found)".
Method3Step ==
    /\ pc = "m3loop"
    /\ LET c == First(found)
           vals == working[c]
       IN  IF Stale(vals)
           THEN \* the data has changed significantly, restart; the caller
                \* returns as soon as the nested call does
                /\ pc' = "m3"
                /\ depth' = depth + 1
                /\ found' = {}
                /\ last' = "ctl"
                /\ UNCHANGED <<working, pairs, pre>>
           ELSE LET k == PairOf(vals)
                IN  /\ working' = PairLoop(working, c, Recorded(pairs, k), k[1], k[2])
                    /\ pairs' = [pairs EXCEPT ![k] = @ \cup {c}]
                    /\ found' = found \ {c}
                    /\ depth' = depth
                    /\ IF found \ {c} = {} THEN M3Done(m3pre)
                       ELSE pc' = "m3loop" /\ last' = "ctl" /\ pre' = pre
    /\ m3pre' = m3pre
    /\ UNCHANGED <<board, redRet, scan, solveVars, reduceVars, inputVars>>

\* "while rem" at the start of the next iteration of the reducer's loop.
Again(r) ==
    IF r # 0
    THEN /\ old_rem' = r
         /\ pc' = "m1"
         /\ last' = "ctl"
         /\ UNCHANGED <<pre, redRet, nothing_found>>
    ELSE /\ old_rem' = old_rem
         /\ Return(TRUE)

\* Lines 137-153 after methods 1-3 ran.
ReduceCheck ==
    /\ pc = "check"
    /\ rem' = WSum(working)
    /\ redPre' = redPre
    /\ m4tried' = m4tried
    /\ IF WSum(working) = old_rem
       THEN /\ looped' = looped
            /\ old_rem' = old_rem
            /\ IF TryHarder(looped) /\ 3 <= LastN(working)
               THEN /\ N' = 3
                    /\ maxN' = LastN(working)
                    /\ pc' = "m4"
                    /\ last' = "ctl"
                    /\ UNCHANGED <<pre, redRet, nothing_found>>
               ELSE /\ UNCHANGED <<N, maxN>>
                    /\ Return(looped)
       ELSE /\ looped' = TRUE
            /\ UNCHANGED <<N, maxN>>
            /\ Again(WSum(working))
    /\ UNCHANGED <<board, working, found, axis, rounds, in_a_row, m3Vars, inputVars>>

Method4 ==
    /\ pc = "m4"
    /\ LET r == wr_method_4(working, N)
       IN  /\ working' = r.working
           /\ IF r.err THEN pc' = "IndexError" /\ last' = "ctl"
                       ELSE pc' = "m4check" /\ last' = "wr_method_4"
    /\ pre' = working
    /\ m4tried' = m4tried \cup {N}
    /\ UNCHANGED <<board, found, redRet, solveVars, looped, rem, old_rem, N, maxN,
                   redPre, m3Vars, inputVars>>

\* Lines 146-152 after one run of method 4.
Method4Check ==
    /\ pc = "m4check"
    /\ rem' = WSum(working)
    /\ redPre' = redPre
    /\ m4tried' = m4tried
    /\ maxN' = maxN
    /\ IF WSum(working) # old_rem
       THEN /\ looped' = TRUE
            /\ N' = N
            /\ Again(WSum(working))
       ELSE /\ looped' = looped
            /\ old_rem' = old_rem
            /\ IF N < maxN
               THEN /\ N' = N + 1
                    /\ pc' = "m4"
                    /\ last' = "ctl"
                    /\ UNCHANGED <<pre, redRet, nothing_found>>
               ELSE /\ N' = N
                    /\ Return(looped)
    /\ UNCHANGED <<board, working, found, axis, rounds, in_a_row, m3Vars, inputVars>>

\* solve_sudoku is called again on the board it returned with no candidate left.
SolveAgain ==
    /\ pc \in {"return22", "return25"}
    /\ WSum(working) = 0
    /\ run = 1
    /\ run' = 2
    /\ out1' = board
    /\ orig' = board
    /\ working' = init_working(board)
    /\ pc' = "while"
    /\ axis' = 0
    /\ nothing_found' = 0
    /\ found' = {}
    /\ pairs' = NoPairs
    /\ looped' = FALSE
    /\ rem' = 0
    /\ old_rem' = 0
    /\ N' = 0
    /\ maxN' = 0
    /\ last' = "init_working"
    /\ pre' = init_working(board)
    /\ redPre' = init_working(board)
    /\ m3pre' = init_working(board)
    /\ scan' = init_working(board)
    /\ redRet' = "none"
    /\ m4tried' = {}
    /\ depth' = 0
    /\ rounds' = 0
    /\ in_a_row' = 0
    /\ UNCHANGED <<board, sol>>

Next ==
    \/ SolveAgain
    \/ While
    \/ Find
    \/ Assign
    \/ ReduceEnter
    \/ Method1
    \/ Method2
    \/ Method3Scan
    \/ Method3Step
    \/ ReduceCheck
    \/ Method4
    \/ Method4Check

Spec == Init /\ [][Next]_vars
(***************************************************************************)
(* Properties                                                              *)
(***************************************************************************)
Returned == pc \in {"return22", "return25"}
InitialCount == WSum(init_working(orig))
HasCompletion == sol # NoSol
NoSingleLeft(w) ==
    /\ Found(w, 0) = {}
    /\ Found(w, 1) = {}
    /\ Found(w, 2) = {}
    /\ FoundInBlock(w) = {}
CountingCalls ==
    {"set_board_value", "wr_method_1", "wr_method_2", "wr_method_3", "wr_method_4",
     "reduce_working_space"}

\* C1: for any input grid solve_sudoku ends by returning the board (Solved or
\* Stuck), never in any other way, and the number of rounds of its while loop
\* is at most the initial total candidate count.
C1_AlwaysReturnsWithinCount ==
    /\ pc # "IndexError"
    /\ rounds <= InitialCount

\* C2 as claimed: whenever solve_sudoku returns with no candidate left, every
\* cell is assigned and every row, column and block holds each digit 1..9
\* exactly once.
C2_SolvedIsComplete ==
    (Returned /\ WSum(working) = 0) =>
        /\ \A c \in Cells : board[c] # 0
        /\ check_board(board, orig)

\* C2 as amended: for an input grid that has a valid completion, whenever
\* solve_sudoku returns with no candidate left, every cell is assigned and
\* every row, column and block holds each digit 1..9 exactly once.
C2_SolvedIsCompleteForValidInput ==
    (HasCompletion /\ Returned /\ WSum(working) = 0) =>
        /\ \A c \in Cells : board[c] # 0
        /\ check_board(board, orig)

C2_Witness ==
    /\ HasCompletion
    /\ pc = "return25"
    /\ rounds >= 2
    /\ \E c \in Cells : orig[c] = 0 /\ board[c] # 0

\* C3: a cell that is non-zero in the input grid holds the same value in every
\* state of the solve and in the returned board.
C3_GivensNeverWritten == \A c \in Cells : orig[c] # 0 => board[c] = orig[c]

C3_Witness ==
    /\ last = "set_board_value"
    /\ \E c \in Cells : orig[c] # 0
    /\ \E c \in Cells : orig[c] = 0 /\ board[c] # 0

\* C4: for an input grid with a valid completion S, in every state of the
\* solve each blank cell (i,j) still has S[i,j] among its candidates.
C4_CorrectDigitStaysCandidate ==
    HasCompletion => \A c \in Cells : board[c] = 0 => sol[c] \in working[c]

C4_Witness ==
    /\ HasCompletion
    /\ last = "wr_method_4"
    /\ working # pre
    /\ \E c \in Cells : board[c] = 0

C6_CountNeverGrowsOverACall ==
    last \in CountingCalls => WSum(working) <= WSum(pre)

C6_Witness ==
    /\ last = "reduce_working_space"
    /\ WSum(working) < WSum(pre)

\* C7: after initialization every write to the candidate space is a clear: a
\* flag that is false is never set true in any later step.
C7_NeverRegrown ==
    [][run' = run => \A c \in Cells : working'[c] \subseteq working[c]]_vars

\* The units (rows, columns, blocks, as sets of cells) two cells share.
SharedUnits(c, d) ==
    {u \in {{e \in Cells : e[1] = c[1]}, {e \in Cells : e[2] = c[2]},
            {e \in Cells : SameBlock(e, c)}} : d \in u}

\* C8: when method 3 is called with two cells of one unit both holding exactly
\* the candidates {n,m}, and no other cell of the unit assigned n or m, then
\* when it returns no other cell of the unit has n or m and both cells hold
\* exactly {n,m}, whatever other two-candidate cells the board has.
C8_NakedPairEliminated ==
    last = "wr_method_3" =>
        \A c \in Cells, d \in Cells :
            (c # d /\ Cardinality(pre[c]) = 2 /\ pre[d] = pre[c]) =>
                \A u \in SharedUnits(c, d) :
                    (\A e \in u \ {c, d} : board[e] \notin pre[c]) =>
                        /\ \A e \in u \ {c, d} : working[e] \cap pre[c] = {}
                        /\ working[c] = pre[c]
                        /\ working[d] = pre[c]

\* C9: solve_sudoku returns with candidates left only right after a call of
\* reduce_working_space that returned False, left the candidate space as it
\* was, and ran method 4 for every N from 3 to the largest per-cell candidate
\* count; and reduce_working_space returns False exactly when the candidate
\* count after the call equals the count before it.
C9_StuckOnlyAfterIdleReducer ==
    /\ (Returned /\ WSum(working) # 0) =>
           /\ pc = "return22"
           /\ last = "reduce_working_space"
           /\ redRet = FALSE
           /\ working = redPre
           /\ m4tried = 3 .. MaxCount(working)
    /\ last = "reduce_working_space" =>
           (redRet = FALSE <=> WSum(working) = WSum(pre))

C9_Witness ==
    /\ pc = "return22"
    /\ WSum(working) # 0
    /\ Cardinality(m4tried) >= 2

\* C10: reduce_working_space is called only after four failed passes in a
\* row, one per axis, so that at the call no axis has a single-candidate
\* position left to assign.
C10_ReducerOnlyAfterIdleCycle ==
    pc = "reduce" => (in_a_row >= 4 /\ NoSingleLeft(working))
\* A round of methods 1-3 just ended without reducing the count.
AtFixedPoint == pc = "check" /\ WSum(working) = old_rem
ReducerReturns(r) == last' = "reduce_working_space" /\ redRet' = r /\ working' = working

\* C11 as claimed: whenever a round of methods 1-3 reduces nothing (candidates
\* remain, and some cell has three or more), the call goes on to method 4
\* with N = 3 and does not return first.
C11_Method4AtEveryFixedPoint ==
    [][(AtFixedPoint /\ MaxCount(working) >= 3) => (pc' = "m4" /\ N' = 3)]_vars

\* C11 as amended: methods 1-3 run in order and are repeated while a round of
\* them reduces the count; at a round that reduces nothing, method 4 is tried
\* only if nothing was reduced so far in this call, with N = 3, 4, ... up to
\* the largest per-cell candidate count, stopping at the first N that reduces
\* (methods 1-3 then run again) or returning False after the last N; if the
\* call reduced something before, it returns True without trying method 4.
C11_Method4OnlyAtIdleFirstRound ==
    [][/\ pc = "m1" => pc' = "m2"
       /\ pc = "m2" => pc' \in {"m3", "IndexError"}
       /\ (pc = "check" /\ WSum(working) # old_rem /\ WSum(working) # 0) =>
              (pc' = "m1" /\ looped' /\ working' = working)
       /\ (AtFixedPoint /\ ~looped /\ MaxCount(working) >= 3) =>
              (pc' = "m4" /\ N' = 3 /\ m4tried = {})
       /\ (AtFixedPoint /\ ~looped /\ MaxCount(working) < 3) => ReducerReturns(FALSE)
       /\ (AtFixedPoint /\ looped) => ReducerReturns(TRUE)
       /\ pc = "m4" => (m4tried = 3 .. (N - 1) /\ N <= MaxCount(working) /\ ~looped)
       /\ (pc = "m4check" /\ WSum(working) = old_rem /\ N < MaxCount(working)) =>
              (pc' = "m4" /\ N' = N + 1)
       /\ (pc = "m4check" /\ WSum(working) = old_rem /\ N >= MaxCount(working)) =>
              ReducerReturns(FALSE)
       /\ (pc = "m4check" /\ WSum(working) # old_rem /\ WSum(working) # 0) =>
              (pc' = "m1" /\ looped' /\ working' = working)
      ]_vars

C11_Witness ==
    /\ AtFixedPoint
    /\ looped
    /\ MaxCount(working) >= 3
\* The rows (columns) of the board in which block (e[1], e[2]) has e[3] as a candidate.
BlockRows(w, e) == {c[1] : c \in {c \in BlockCells(e[1], e[2]) : e[3] \in w[c]}}
BlockCols(w, e) == {c[2] : c \in {c \in BlockCells(e[1], e[2]) : e[3] \in w[c]}}
\* The flags a call cleared.
Cleared(before, after) == {t \in Flags : t[2] \in before[t[1]] /\ t[2] \notin after[t[1]]}

\* C12 as claimed: when method 2 returns, for every block and digit n that
\* were confined to one row (or one column) of the block at the call, n is
\* cleared from the block's cells outside that row (column) and the
\* candidates n of the cells outside the block are as they were.
C12_ClearsRestOfBlockOnly ==
    last = "wr_method_2" =>
        \A e \in BlockDigits :
            (Cardinality(BlockRows(pre, e)) = 1 \/ Cardinality(BlockCols(pre, e)) = 1) =>
                /\ Cardinality(BlockRows(pre, e)) = 1 =>
                       \A c \in BlockCells(e[1], e[2]) :
                           c[1] \notin BlockRows(pre, e) => e[3] \notin working[c]
                /\ Cardinality(BlockCols(pre, e)) = 1 =>
                       \A c \in BlockCells(e[1], e[2]) :
                           c[2] \notin BlockCols(pre, e) => e[3] \notin working[c]
                /\ \A c \in Cells \ BlockCells(e[1], e[2]) :
                       (e[3] \in working[c]) = (e[3] \in pre[c])

\* C12 as amended: when method 2 returns, for every block and digit n that
\* were confined to one row (or one column) of the block at the call, n is
\* cleared from the cells of that row (column) outside the block; the method
\* sets no flag, and every flag it cleared belongs to a cell outside a block
\* of its band (stack) that at the return holds n only in the cell's row
\* (column).
C12_ClearsRestOfLineOutsideBlock ==
    last = "wr_method_2" =>
        /\ \A e \in BlockDigits :
               /\ Cardinality(BlockRows(pre, e)) = 1 =>
                      \A c \in Cells \ BlockCells(e[1], e[2]) :
                          c[1] \in BlockRows(pre, e) => e[3] \notin working[c]
               /\ Cardinality(BlockCols(pre, e)) = 1 =>
                      \A c \in Cells \ BlockCells(e[1], e[2]) :
                          c[2] \in BlockCols(pre, e) => e[3] \notin working[c]
        /\ \A c \in Cells : working[c] \subseteq pre[c]
        /\ \A t \in Cleared(pre, working) :
               \E e \in BlockDigits :
                   /\ e[3] = t[2]
                   /\ t[1] \notin BlockCells(e[1], e[2])
                   /\ \/ BlockRows(working, e) = {t[1][1]}
                      \/ BlockCols(working, e) = {t[1][2]}

C12_Witness ==
    /\ last = "wr_method_2"
    /\ \E t \in Cleared(pre, working), e \in BlockDigits :
           /\ e[3] = t[2]
           /\ t[1] \notin BlockCells(e[1], e[2])
           /\ BlockRows(pre, e) = {t[1][1]}
C14_RestartOnlyAfterDecrease ==
    /\ (pc = "m3" /\ depth > 0) =>
           /\ WSum(working) < WSum(scan)
           /\ depth <= WSum(m3pre) - WSum(working)
    /\ pc = "m3loop" =>
           /\ \A c \in Cells : working[c] \subseteq scan[c]
           /\ found # {}
           /\ found \subseteq {c \in Cells : Cardinality(scan[c]) = 2}
           /\ depth <= WSum(m3pre) - WSum(scan)

C14_Witness ==
    /\ pc = "m3"
    /\ depth >= 2
    /\ WSum(working) < WSum(scan)
====
